---- MODULE Spec2Model ----
(***************************************************************************)
(* Model of the CEIDG crawler of src/main.py: the rate limited client      *)
(* (CEIDGClient.companies, CEIDGClient.company_detail_by_link), the store  *)
(* operations (existing_ids, insert_base, update_details) and the crawl    *)
(* loop run_etl, one action per step of the loop.                          *)
(*                                                                         *)
(* Time is counted in tenths of a second.  Only time.sleep lets time pass: *)
(* every other statement takes no time, which is the least the real        *)
(* program can take, so every gap of the model is a lower bound of the     *)
(* real gap.  Gaps are kept up to RATE_SLEEP_SECONDS and no further.       *)
(***************************************************************************)
EXTENDS Integers, Sequences, FiniteSets, TLC

VARIABLES
    pc,                 \* position of run_etl
    current_page,       \* run_etl: current_page
    contactable_added,  \* run_etl: contactable_added
    all_known_streak,   \* run_etl: all_known_streak
    page_known_only,    \* run_etl: page_known_only
    count_total,        \* run_etl: count_total of the page being processed
    items,              \* run_etl: entries of the page still to iterate (head = rec)
    known,              \* run_etl: known
    attempt,            \* CEIDGClient: attempt of the call in progress
    callLog,            \* outcomes of the requests of the call in progress / just ended
    callResult,         \* how the last client call ended
    details,            \* run_etl: firmy_list / details of the record in progress
    db,                 \* table ceidg_companies (committed rows)
    last_page,          \* table ceidg_crawl_state, column last_page
    reason,             \* which exit of run_etl was taken
    sinceLast,          \* time since the last outbound request (capped)
    sinceSucc,          \* time since the last successful request (capped), -1: none yet
    succGaps,           \* gaps between the last successful requests (a window)
    pageAllKnown,       \* every entry of the page had an identifier present in the store
    pageZeroNew,        \* no entry of the page had an identifier absent from the store
    zeroNewStreak,      \* number of pages with pageZeroNew in a row, up to now
    feed,               \* the "count" every listing response carries, AnyCount: any
    enriched,           \* identifiers whose row UPDATE_ALEO has been run on
    detailCalls,        \* calls of company_detail_by_link made in this run, per identifier
    lastReqPage         \* page index of the last listing request, -1: none yet

vars == << pc, current_page, contactable_added, all_known_streak, page_known_only,
           count_total, items, known, attempt, callLog, callResult, details, db,
           last_page, reason, sinceLast, sinceSucc, succGaps, pageAllKnown,
           pageZeroNew, zeroNewStreak, feed, enriched, detailCalls, lastReqPage >>

(***************************************************************************)
(* Program constants and bounds                                            *)
(***************************************************************************)
\* RATE_SLEEP_SECONDS = 3.7, in tenths of a second
RATE_SLEEP_SECONDS == 37
PAGE_SIZE == 25
\* range(3) of both client loops
MAX_ATTEMPTS == 3
\* CONTACTABLE_TARGET (18 in the source), scaled down
CONTACTABLE_TARGET == 2
\* all_known_pages_limit (300 in the source), scaled down
all_known_pages_limit == 2
\* pages a run may request in the model
MaxPages == 3
\* entries a listing response may carry in the model
MaxItems == 2
\* successful fetches a window of the rate floor spans
MaxN == 3

(***************************************************************************)
(* Data                                                                    *)
(***************************************************************************)
NoId == 0
Ids == {1, 2}
NoNip == 0
NoCount == -1
\* no restriction on the "count" of the listing responses
AnyCount == NoCount - 1
Null == "null"

\* Raw listing entries (id, wlasciciel.nip, link); the other fields of an entry
\* (nazwa, dataRozpoczecia, status) are copied like link and are left out.
RawEntries ==
    { [id |-> NoId, owner_nip |-> NoNip, link |-> TRUE],
      [id |-> 1, owner_nip |-> NoNip, link |-> TRUE],
      [id |-> 1, owner_nip |-> 1, link |-> TRUE],
      [id |-> 2, owner_nip |-> 1, link |-> TRUE],
      [id |-> 2, owner_nip |-> NoNip, link |-> FALSE] }

\* "count" of a listing response
Counts == {NoCount, PAGE_SIZE, PAGE_SIZE + 1, 4 * PAGE_SIZE}

\* "firma" list of a detail response: empty, or its first record (telefon, email)
NoFirma == [present |-> FALSE, telefon |-> Null, email |-> Null]
Firmy ==
    { NoFirma,
      [present |-> TRUE, telefon |-> Null, email |-> Null],
      [present |-> TRUE, telefon |-> "", email |-> Null],
      [present |-> TRUE, telefon |-> "p", email |-> Null],
      [present |-> TRUE, telefon |-> Null, email |-> "e"] }

RECURSIVE SeqsUpTo(_, _)
SeqsUpTo(S, n) ==
    IF n = 0 THEN { <<>> }
    ELSE LET shorter == SeqsUpTo(S, n - 1)
         IN shorter \cup { Append(s, e) : s \in { t \in shorter : Len(t) = n - 1 }, e \in S }

Pages == SeqsUpTo(RawEntries, MaxItems)

Min(a, b) == IF a < b THEN a ELSE b

\* time.sleep(d) seen by a gap counter t
Elapse(t, d) == Min(t + d, RATE_SLEEP_SECONDS)

(***************************************************************************)
(* Store                                                                   *)
(***************************************************************************)
AbsentRow ==
    [present |-> FALSE, nip |-> NoNip, link |-> FALSE, updated |-> FALSE,
     phone |-> Null, email |-> Null, aleo |-> Null]

EmptyDb == [i \in Ids |-> AbsentRow]

PresentIds(d) == { i \in Ids : d[i].present }

\* existing_ids: the identifiers among ids that have a row
existing_ids_none(d, ids) == {}

existing_ids(d, ids) == { i \in ids : i \in Ids /\ d[i].present }

\* map_base_record
map_base_record(rec) ==
    [ceidg_id |-> rec.id, nip |-> rec.owner_nip, link |-> rec.link]

\* map_detail_record
map_detail_record(firma) ==
    [phone |-> firma.telefon, email |-> firma.email]

\* Python truth value of an optional string
Truthy(s) == s # Null /\ s # ""

\* is_contactable_mapped
is_contactable_mapped(mapped) == Truthy(mapped.phone) \/ Truthy(mapped.email)

\* UNIQUE (nip): a non-null nip that another row carries
NipTaken(d, row) ==
    row.nip # NoNip /\ \E j \in Ids : d[j].present /\ j # row.ceidg_id /\ d[j].nip = row.nip

\* UPSERT_BASE run by insert_base: ON CONFLICT (ceidg_id) DO NOTHING
UpsertBaseBroken(d, row) ==
    IF NipTaken(d, row)
    THEN [db |-> d, ret |-> "raise"]
    ELSE [db |-> [d EXCEPT ![row.ceidg_id] =
                     [@ EXCEPT !.present = TRUE, !.nip = row.nip, !.link = row.link]],
          ret |-> IF d[row.ceidg_id].present THEN "conflict" ELSE "inserted"]

UpsertBase(d, row) ==
    IF d[row.ceidg_id].present
    THEN [db |-> d, ret |-> "conflict"]
    ELSE IF NipTaken(d, row)
         THEN [db |-> d, ret |-> "raise"]
         ELSE [db |-> [d EXCEPT ![row.ceidg_id] =
                          [AbsentRow EXCEPT !.present = TRUE, !.nip = row.nip,
                                            !.link = row.link]],
               ret |-> "inserted"]

\* UPDATE_DETAILS run by update_details: no row, no change
UpdateDetails(d, id, det) ==
    IF d[id].present
    THEN [d EXCEPT ![id] = [@ EXCEPT !.phone = det.phone, !.email = det.email,
                                    !.updated = TRUE]]
    ELSE d

(***************************************************************************)
(* CEIDGClient                                                             *)
(***************************************************************************)
\* CEIDGClient._sleep
ClientSleepNone == 0 * RATE_SLEEP_SECONDS

ClientSleep == RATE_SLEEP_SECONDS

\* time.sleep(RATE_SLEEP_SECONDS * (attempt + 2)) after a 429
BackoffSleep(a) == RATE_SLEEP_SECONDS * (a + 2)

\* for attempt in range(3): is there another pass after pass a
AttemptsLeftOneMore(a) == a + 1 < MAX_ATTEMPTS + 1

AttemptsLeft(a) == a + 1 < MAX_ATTEMPTS

\* companies: "except Exception" logs and lets the loop go on
companies_on_error(a) == IF AttemptsLeft(a) THEN "retry" ELSE "exhausted"

\* company_detail_by_link: raise_for_status() leaves the call
detail_on_error_retrying(a) == IF AttemptsLeft(a) THEN "retry" ELSE "exhausted"

detail_on_error(a) == "http_error"

LastN(s, n) == IF Len(s) <= n THEN s ELSE SubSeq(s, Len(s) - n + 1, Len(s))

\* A request goes out now with outcome o, then the call sleeps d.
Request(o, d) ==
    /\ callLog' = Append(callLog, o)
    /\ sinceLast' = Elapse(0, d)
    /\ sinceSucc' = IF o = "ok" THEN Elapse(0, d)
                    ELSE IF sinceSucc = -1 THEN -1 ELSE Elapse(sinceSucc, d)
    /\ succGaps' = IF o = "ok" /\ sinceSucc # -1
                   THEN LastN(Append(succGaps, sinceSucc), MaxN - 1)
                   ELSE succGaps

StartCall ==
    /\ attempt' = 0
    /\ callLog' = <<>>
    /\ callResult' = "pending"

\* companies, one pass of the loop: status 429
PageThrottled ==
    /\ pc = "page_req"
    /\ lastReqPage' = current_page
    /\ Request("throttled", BackoffSleep(attempt))
    /\ attempt' = attempt + 1
    /\ IF AttemptsLeft(attempt)
       THEN /\ pc' = "page_req"
            /\ callResult' = "pending"
            /\ reason' = reason
       ELSE /\ pc' = "failed"
            /\ callResult' = "exhausted"
            /\ reason' = "page_fetch_failed"
    /\ UNCHANGED << current_page, contactable_added, all_known_streak, page_known_only,
                    count_total, items, known, details, db, last_page, feed, enriched,
                    detailCalls, pageAllKnown,
                    pageZeroNew, zeroNewStreak >>

\* companies, one pass of the loop: another non-success status
PageError ==
    /\ pc = "page_req"
    /\ lastReqPage' = current_page
    /\ Request("error", 0)
    /\ attempt' = attempt + 1
    /\ IF companies_on_error(attempt) = "retry"
       THEN /\ pc' = "page_req"
            /\ callResult' = "pending"
            /\ reason' = reason
       ELSE /\ pc' = "failed"
            /\ callResult' = companies_on_error(attempt)
            /\ reason' = "page_fetch_failed"
    /\ UNCHANGED << current_page, contactable_added, all_known_streak, page_known_only,
                    count_total, items, known, details, db, last_page, feed, enriched,
                    detailCalls, pageAllKnown,
                    pageZeroNew, zeroNewStreak >>

\* companies, one pass of the loop: success; data = r.json()
PageOk ==
    /\ pc = "page_req"
    /\ lastReqPage' = current_page
    /\ Request("ok", ClientSleep)
    /\ \E page \in Pages, count \in (IF feed = AnyCount THEN Counts ELSE {feed}) :
          /\ items' = page
          /\ count_total' = count
    /\ callResult' = "ok"
    /\ pc' = "page_got"
    /\ UNCHANGED << current_page, contactable_added, all_known_streak, page_known_only,
                    known, attempt, details, db, last_page, feed, enriched, detailCalls,
                    reason, pageAllKnown,
                    pageZeroNew, zeroNewStreak >>

\* company_detail_by_link, one pass of the loop: status 429
DetailThrottled ==
    /\ pc = "detail_req"
    /\ Request("throttled", BackoffSleep(attempt))
    /\ attempt' = attempt + 1
    /\ IF AttemptsLeft(attempt)
       THEN /\ pc' = "detail_req"
            /\ callResult' = "pending"
       ELSE /\ pc' = "detail_raised"
            /\ callResult' = "exhausted"
    /\ UNCHANGED << current_page, contactable_added, all_known_streak, page_known_only,
                    count_total, items, known, details, db, last_page, feed, enriched,
                    detailCalls, reason,
                    pageAllKnown, pageZeroNew, zeroNewStreak, lastReqPage >>

\* company_detail_by_link, one pass of the loop: another non-success status
DetailError ==
    /\ pc = "detail_req"
    /\ Request("error", 0)
    /\ attempt' = attempt + 1
    /\ IF detail_on_error(attempt) = "retry"
       THEN /\ pc' = "detail_req"
            /\ callResult' = "pending"
       ELSE /\ pc' = "detail_raised"
            /\ callResult' = detail_on_error(attempt)
    /\ UNCHANGED << current_page, contactable_added, all_known_streak, page_known_only,
                    count_total, items, known, details, db, last_page, feed, enriched,
                    detailCalls, reason,
                    pageAllKnown, pageZeroNew, zeroNewStreak, lastReqPage >>

\* company_detail_by_link, one pass of the loop: success; detail_json = r.json()
DetailOk ==
    /\ pc = "detail_req"
    /\ Request("ok", ClientSleep)
    /\ \E firma \in Firmy : details' = firma
    /\ callResult' = "ok"
    /\ pc' = "detail_got"
    /\ UNCHANGED << current_page, contactable_added, all_known_streak, page_known_only,
                    count_total, items, known, attempt, db, last_page, feed, enriched,
                    detailCalls, reason,
                    pageAllKnown, pageZeroNew, zeroNewStreak, lastReqPage >>

(***************************************************************************)
(* run_etl                                                                 *)
(***************************************************************************)
\* while contactable_added < CONTACTABLE_TARGET
LoopCondition(n) == n < CONTACTABLE_TARGET

\* if contactable_added >= CONTACTABLE_TARGET: break
TargetReachedNever(n) == n > CONTACTABLE_TARGET

TargetReached(n) == n >= CONTACTABLE_TARGET

\* ids = [r.get("id") for r in items if r.get("id")]
PageIds(page) == { page[k].id : k \in { j \in 1..Len(page) : page[j].id # NoId } }

\* if not ceidg_id or ceidg_id in known
Skips(rec, kn) == rec.id = NoId \/ rec.id \in kn

\* if page_known_only: all_known_streak += 1 else: all_known_streak = 0
NextStreakNoReset(streak, knownOnly) == streak + 1

NextStreakAlwaysReset(streak, knownOnly) == 0 * streak

NextStreak(streak, knownOnly) == IF knownOnly THEN streak + 1 ELSE 0

\* if count_total is not None and current_page * PAGE_SIZE >= int(count_total)
SourceExhaustedLate(page, count) == count # NoCount /\ page * PAGE_SIZE >= count + PAGE_SIZE

SourceExhaustedStrict(page, count) == count # NoCount /\ page * PAGE_SIZE > count

SourceExhausted(page, count) == count # NoCount /\ page * PAGE_SIZE >= count

ClearCall ==
    /\ attempt' = 0
    /\ callLog' = <<>>
    /\ callResult' = "none"

UnchangedClock == UNCHANGED << sinceLast, sinceSucc, succGaps, lastReqPage >>

UnchangedGhosts == UNCHANGED << pageAllKnown, pageZeroNew, zeroNewStreak >>

\* while ...: data = ceidg.companies(page=current_page)
EnterLoop ==
    /\ pc = "while"
    /\ LoopCondition(contactable_added)
    /\ current_page < MaxPages
    /\ pc' = "page_req"
    /\ StartCall
    /\ UnchangedClock /\ UnchangedGhosts
    /\ UNCHANGED << current_page, contactable_added, all_known_streak, page_known_only,
                    count_total, items, known, details, db, last_page, feed, enriched,
                    detailCalls, reason >>

\* the while condition fails: "Zakonczono"
ExitLoop ==
    /\ pc = "while"
    /\ ~LoopCondition(contactable_added)
    /\ pc' = "done"
    /\ reason' = "target"
    /\ UnchangedClock /\ UnchangedGhosts
    /\ UNCHANGED << current_page, contactable_added, all_known_streak, page_known_only,
                    count_total, items, known, attempt, callLog, callResult, details,
                    db, last_page, feed, enriched, detailCalls >>

\* math.floor(count_total/PAGE_SIZE) on page 0 with count None: TypeError
PageCountCrash ==
    /\ pc = "page_got"
    /\ current_page = 0 /\ count_total = NoCount
    /\ pc' = "failed"
    /\ reason' = "type_error"
    /\ ClearCall
    /\ UnchangedClock /\ UnchangedGhosts
    /\ UNCHANGED << current_page, contactable_added, all_known_streak, page_known_only,
                    count_total, items, known, details, db, last_page, feed, enriched,
                    detailCalls >>

\* if not items: break
PageEmpty ==
    /\ pc = "page_got"
    /\ ~(current_page = 0 /\ count_total = NoCount)
    /\ items = <<>>
    /\ pc' = "done"
    /\ reason' = "empty"
    /\ ClearCall
    /\ UnchangedClock /\ UnchangedGhosts
    /\ UNCHANGED << current_page, contactable_added, all_known_streak, page_known_only,
                    count_total, items, known, details, db, last_page, feed, enriched,
                    detailCalls >>

\* page_known_only = True; ids = ...; known = existing_ids(conn, ids)
PageLookup ==
    /\ pc = "page_got"
    /\ ~(current_page = 0 /\ count_total = NoCount)
    /\ items # <<>>
    /\ page_known_only' = TRUE
    /\ known' = existing_ids(db, PageIds(items))
    /\ pageAllKnown' = \A k \in 1..Len(items) : items[k].id \in PresentIds(db)
    /\ pageZeroNew' = \A k \in 1..Len(items) :
                          items[k].id = NoId \/ items[k].id \in PresentIds(db)
    /\ pc' = "rec"
    /\ ClearCall
    /\ UnchangedClock
    /\ UNCHANGED << current_page, contactable_added, all_known_streak, count_total,
                    items, details, db, last_page, feed, enriched, detailCalls, reason,
                    zeroNewStreak >>

\* existing_ids raises (store error); nothing in run_etl catches it
PageLookupFails ==
    /\ pc = "page_got"
    /\ ~(current_page = 0 /\ count_total = NoCount)
    /\ items # <<>>
    /\ PageIds(items) # {}
    /\ page_known_only' = TRUE
    /\ pc' = "failed"
    /\ reason' = "store_error"
    /\ ClearCall
    /\ UnchangedClock /\ UnchangedGhosts
    /\ UNCHANGED << current_page, contactable_added, all_known_streak, count_total,
                    items, known, details, db, last_page, feed, enriched, detailCalls >>

\* "continue": on to the next entry of the page
Continue ==
    /\ items' = Tail(items)
    /\ pc' = "rec"
    /\ details' = NoFirma

\* for rec in items: the page is drained
PageDrained ==
    /\ pc = "rec"
    /\ items = <<>>
    /\ pc' = "page_end"
    /\ UnchangedClock /\ UnchangedGhosts
    /\ UNCHANGED << current_page, contactable_added, all_known_streak, page_known_only,
                    count_total, items, known, attempt, callLog, callResult, details,
                    db, last_page, feed, enriched, detailCalls, reason >>

\* if not ceidg_id or ceidg_id in known: continue
SkipRecord ==
    /\ pc = "rec"
    /\ items # <<>>
    /\ Skips(Head(items), known)
    /\ Continue
    /\ UnchangedClock /\ UnchangedGhosts
    /\ UNCHANGED << current_page, contactable_added, all_known_streak, page_known_only,
                    count_total, known, attempt, callLog, callResult, db, last_page, feed,
                    enriched, detailCalls,
                    reason >>

\* insert_base + commit, a new row, the entry has a link: detail fetch next
InsertNew ==
    /\ pc = "rec"
    /\ items # <<>>
    /\ ~Skips(Head(items), known)
    /\ LET base == map_base_record(Head(items))
           r == UpsertBase(db, base)
       IN /\ r.ret = "inserted"
          /\ base.link
          /\ db' = r.db
    /\ page_known_only' = FALSE
    /\ pc' = "detail_req"
    /\ detailCalls' = [detailCalls EXCEPT ![Head(items).id] = @ + 1]
    /\ StartCall
    /\ UnchangedClock /\ UnchangedGhosts
    /\ UNCHANGED << current_page, contactable_added, all_known_streak, count_total,
                    items, known, details, last_page, feed, enriched, reason >>

\* insert_base + commit, a new row, no link: detail_json = {}, firmy_list empty
InsertNewNoLink ==
    /\ pc = "rec"
    /\ items # <<>>
    /\ ~Skips(Head(items), known)
    /\ LET base == map_base_record(Head(items))
           r == UpsertBase(db, base)
       IN /\ r.ret = "inserted"
          /\ ~base.link
          /\ db' = r.db
    /\ page_known_only' = FALSE
    /\ Continue
    /\ UnchangedClock /\ UnchangedGhosts
    /\ UNCHANGED << current_page, contactable_added, all_known_streak, count_total,
                    known, attempt, callLog, callResult, last_page, feed, enriched,
                    detailCalls, reason >>

\* insert_base returns False: if not inserted: continue
InsertConflictFetches ==
    /\ pc = "rec"
    /\ items # <<>>
    /\ ~Skips(Head(items), known)
    /\ LET r == UpsertBase(db, map_base_record(Head(items)))
       IN /\ r.ret = "conflict"
          /\ db' = r.db
    /\ page_known_only' = FALSE
    /\ pc' = "detail_req"
    /\ detailCalls' = [detailCalls EXCEPT ![Head(items).id] = @ + 1]
    /\ StartCall
    /\ UnchangedClock /\ UnchangedGhosts
    /\ UNCHANGED << current_page, contactable_added, all_known_streak, count_total,
                    items, known, details, last_page, feed, enriched, reason >>

InsertConflict ==
    /\ pc = "rec"
    /\ items # <<>>
    /\ ~Skips(Head(items), known)
    /\ LET r == UpsertBase(db, map_base_record(Head(items)))
       IN /\ r.ret = "conflict"
          /\ db' = r.db
    /\ page_known_only' = FALSE
    /\ Continue
    /\ UnchangedClock /\ UnchangedGhosts
    /\ UNCHANGED << current_page, contactable_added, all_known_streak, count_total,
                    known, attempt, callLog, callResult, last_page, feed, enriched,
                    detailCalls, reason >>

\* insert_base raises on UNIQUE (nip): rollback, continue
InsertUniqueViolationAborts ==
    /\ pc = "rec"
    /\ items # <<>>
    /\ ~Skips(Head(items), known)
    /\ UpsertBase(db, map_base_record(Head(items))).ret = "raise"
    /\ page_known_only' = FALSE
    /\ pc' = "failed"
    /\ reason' = "store_error"
    /\ UnchangedClock /\ UnchangedGhosts
    /\ UNCHANGED << current_page, contactable_added, all_known_streak, count_total, items,
                    details, known, attempt, callLog, callResult, db, last_page, feed,
                    enriched, detailCalls >>

InsertUniqueViolation ==
    /\ pc = "rec"
    /\ items # <<>>
    /\ ~Skips(Head(items), known)
    /\ UpsertBase(db, map_base_record(Head(items))).ret = "raise"
    /\ page_known_only' = FALSE
    /\ Continue
    /\ UnchangedClock /\ UnchangedGhosts
    /\ UNCHANGED << current_page, contactable_added, all_known_streak, count_total,
                    known, attempt, callLog, callResult, db, last_page, feed, enriched,
                    detailCalls, reason >>

\* insert_base or its commit raises (store error): rollback, continue
InsertStoreError ==
    /\ pc = "rec"
    /\ items # <<>>
    /\ ~Skips(Head(items), known)
    /\ page_known_only' = FALSE
    /\ Continue
    /\ UnchangedClock /\ UnchangedGhosts
    /\ UNCHANGED << current_page, contactable_added, all_known_streak, count_total,
                    known, attempt, callLog, callResult, db, last_page, feed, enriched,
                    detailCalls, reason >>

\* company_detail_by_link raised: except Exception: rollback, continue
DetailRaisedAborts ==
    /\ pc = "detail_raised"
    /\ pc' = "failed"
    /\ reason' = "detail_fetch_failed"
    /\ UnchangedClock /\ UnchangedGhosts
    /\ UNCHANGED << current_page, contactable_added, all_known_streak, page_known_only,
                    count_total, items, known, attempt, callLog, callResult, details,
                    db, last_page, feed, enriched, detailCalls >>

DetailRaised ==
    /\ pc = "detail_raised"
    /\ Continue
    /\ ClearCall
    /\ UnchangedClock /\ UnchangedGhosts
    /\ UNCHANGED << current_page, contactable_added, all_known_streak, page_known_only,
                    count_total, known, db, last_page, feed, enriched, detailCalls, reason >>

\* if not firmy_list: continue
DetailMissing ==
    /\ pc = "detail_got"
    /\ ~details.present
    /\ Continue
    /\ ClearCall
    /\ UnchangedClock /\ UnchangedGhosts
    /\ UNCHANGED << current_page, contactable_added, all_known_streak, page_known_only,
                    count_total, known, db, last_page, feed, enriched, detailCalls, reason >>

\* details = map_detail_record(firmy_list[0]); update_details; commit
UpdateDetailsOk ==
    /\ pc = "detail_got"
    /\ details.present
    /\ db' = UpdateDetails(db, Head(items).id, map_detail_record(details))
    /\ pc' = "count"
    /\ ClearCall
    /\ UnchangedClock /\ UnchangedGhosts
    /\ UNCHANGED << current_page, contactable_added, all_known_streak, page_known_only,
                    count_total, items, known, details, last_page, feed, enriched,
                    detailCalls, reason >>

\* update_details or its commit raises (store error): rollback, continue
UpdateDetailsFails ==
    /\ pc = "detail_got"
    /\ details.present
    /\ Continue
    /\ ClearCall
    /\ UnchangedClock /\ UnchangedGhosts
    /\ UNCHANGED << current_page, contactable_added, all_known_streak, page_known_only,
                    count_total, known, db, last_page, feed, enriched, detailCalls, reason >>

\* if is_contactable_mapped(details): contactable_added += 1; at the target: break
CountContactable ==
    /\ pc = "count"
    /\ is_contactable_mapped(map_detail_record(details))
    /\ contactable_added' = contactable_added + 1
    /\ items' = Tail(items)
    /\ details' = NoFirma
    /\ pc' = IF TargetReached(contactable_added + 1) THEN "page_end" ELSE "rec"
    /\ UnchangedClock /\ UnchangedGhosts
    /\ UNCHANGED << current_page, all_known_streak, page_known_only, count_total, known,
                    attempt, callLog, callResult, db, last_page, feed, enriched, detailCalls,
                    reason >>

\* not contactable: on to the next entry
CountSkip ==
    /\ pc = "count"
    /\ ~is_contactable_mapped(map_detail_record(details))
    /\ Continue
    /\ UnchangedClock /\ UnchangedGhosts
    /\ UNCHANGED << current_page, contactable_added, all_known_streak, page_known_only,
                    count_total, known, attempt, callLog, callResult, db, last_page, feed,
                    enriched, detailCalls,
                    reason >>

\* what every way out of a page leaves behind
LeavePage ==
    /\ all_known_streak' = NextStreak(all_known_streak, page_known_only)
    /\ zeroNewStreak' = IF pageZeroNew THEN zeroNewStreak + 1 ELSE 0
    /\ items' = <<>>
    /\ known' = {}
    /\ count_total' = NoCount
    /\ page_known_only' = FALSE
    /\ pageAllKnown' = FALSE
    /\ pageZeroNew' = FALSE

\* if all_known_streak >= all_known_pages_limit: break
PageEndStale ==
    /\ pc = "page_end"
    /\ NextStreak(all_known_streak, page_known_only) >= all_known_pages_limit
    /\ LeavePage
    /\ pc' = "done"
    /\ reason' = "stale"
    /\ UnchangedClock
    /\ UNCHANGED << current_page, contactable_added, attempt, callLog, callResult,
                    details, db, last_page, feed, enriched, detailCalls >>

\* current_page += 1; the reported count is reached: break
PageEndExhausted ==
    /\ pc = "page_end"
    /\ NextStreak(all_known_streak, page_known_only) < all_known_pages_limit
    /\ SourceExhausted(current_page + 1, count_total)
    /\ LeavePage
    /\ current_page' = current_page + 1
    /\ pc' = "done"
    /\ reason' = "exhausted"
    /\ UnchangedClock
    /\ UNCHANGED << contactable_added, attempt, callLog, callResult, details, db,
                    last_page, feed, enriched, detailCalls >>

\* current_page += 1; back to the while condition
PageEndContinue ==
    /\ pc = "page_end"
    /\ NextStreak(all_known_streak, page_known_only) < all_known_pages_limit
    /\ ~SourceExhausted(current_page + 1, count_total)
    /\ LeavePage
    /\ current_page' = current_page + 1
    /\ pc' = "while"
    /\ UnchangedClock
    /\ UNCHANGED << contactable_added, attempt, callLog, callResult, details, db,
                    last_page, feed, enriched, detailCalls, reason >>

(***************************************************************************)
(* Specification                                                           *)
(***************************************************************************)
\* ensure_schema, then the locals of run_etl
InitRun ==
    /\ pc = "while"
    /\ current_page = 0
    /\ contactable_added = 0
    /\ all_known_streak = 0
    /\ page_known_only = FALSE
    /\ count_total = NoCount
    /\ items = <<>>
    /\ known = {}
    /\ attempt = 0
    /\ callLog = <<>>
    /\ callResult = "none"
    /\ details = NoFirma
    /\ db = EmptyDb
    /\ last_page = 0
    /\ reason = "none"
    /\ sinceLast = RATE_SLEEP_SECONDS
    /\ sinceSucc = -1
    /\ succGaps = <<>>
    /\ pageAllKnown = FALSE
    /\ pageZeroNew = FALSE
    /\ zeroNewStreak = 0
    /\ enriched = {}
    /\ detailCalls = [i \in Ids |-> 0]
    /\ lastReqPage = -1

\* a registry whose responses may each report any count, or none
Init == InitRun /\ feed = AnyCount

\* the counts of a registry that reports the same count (or no count) in every
\* response; none of them asks for a page beyond MaxPages
SameCounts == {NoCount, 0, PAGE_SIZE, PAGE_SIZE + 1, 2 * PAGE_SIZE + 1, MaxPages * PAGE_SIZE}

InitSameCount == InitRun /\ feed \in SameCounts

Next ==
    \/ EnterLoop
    \/ ExitLoop
    \/ PageThrottled
    \/ PageError
    \/ PageOk
    \/ PageCountCrash
    \/ PageEmpty
    \/ PageLookup
    \/ PageLookupFails
    \/ PageDrained
    \/ SkipRecord
    \/ InsertNew
    \/ InsertNewNoLink
    \/ InsertConflict
    \/ InsertUniqueViolation
    \/ InsertStoreError
    \/ DetailThrottled
    \/ DetailError
    \/ DetailOk
    \/ DetailRaised
    \/ DetailMissing
    \/ UpdateDetailsOk
    \/ UpdateDetailsFails
    \/ CountContactable
    \/ CountSkip
    \/ PageEndStale
    \/ PageEndExhausted
    \/ PageEndContinue

Spec == Init /\ [][Next]_vars

\* run_etl is one sequential flow: whatever statement is next is executed, and every
\* request returns (timeout=60) or raises
SpecSameCountFair == InitSameCount /\ [][Next]_vars /\ WF_vars(Next)

(***************************************************************************)
(* Properties                                                              *)
(***************************************************************************)
AllThrottled == callLog # <<>> /\ \A k \in 1..Len(callLog) : callLog[k] = "throttled"

InPageCall == pc = "page_req" \/ pc = "page_got" \/ (pc = "failed" /\ reason = "page_fetch_failed")

InDetailCall == pc = "detail_req" \/ pc = "detail_got" \/ pc = "detail_raised"

RECURSIVE SeqSum(_)
SeqSum(s) == IF s = <<>> THEN 0 ELSE Head(s) + SeqSum(Tail(s))

\* the base rows the listing can carry
BaseRows == { map_base_record(e) : e \in { x \in RawEntries : x.id # NoId } }

\* C1: once contactable_added has reached the target the run is past the records of
\* the page (the rest of the page is abandoned) and on its way out: it is at no
\* position from which a listing fetch, a detail fetch, a base insert or a detail
\* update is made, and the counter never passes the target.
C1_TargetStopsRun ==
    contactable_added >= CONTACTABLE_TARGET =>
        /\ contactable_added = CONTACTABLE_TARGET
        /\ pc \in {"page_end", "while", "done"}

\* C1 witness: the target was reached with entries of the page left over
C1_Witness ==
    /\ pc = "page_end"
    /\ contactable_added = CONTACTABLE_TARGET
    /\ items # <<>>

\* C2: a call (page or detail) that got nothing but rate-limit responses has issued at
\* most 3 requests, is still running while it has issued fewer than 3, and has failed
\* with the retries-exhausted error once it has issued 3.
C2_ThrottledThreeTimes ==
    AllThrottled =>
        /\ InPageCall \/ InDetailCall
        /\ Len(callLog) <= 3
        /\ Len(callLog) < 3 => callResult = "pending" /\ pc \in {"page_req", "detail_req"}
        /\ Len(callLog) = 3 => callResult = "exhausted" /\ pc \in {"failed", "detail_raised"}

\* C2 witness: a detail fetch that was throttled three times and gave up
C2_Witness ==
    /\ pc = "detail_raised"
    /\ callLog = << "throttled", "throttled", "throttled" >>
    /\ callResult = "exhausted"

C4_SpacingBeforeEveryRequest ==
    pc \in {"page_req", "detail_req"} => sinceLast >= RATE_SLEEP_SECONDS

\* C5: over the last n + 1 successful fetches, for every n the window holds, the time
\* from the first to the last is at least n times the spacing.
C5_RateFloor ==
    \A n \in 1..Len(succGaps) :
        SeqSum(LastN(succGaps, n)) >= n * RATE_SLEEP_SECONDS

\* C5 witness: a full window of successful fetches, the last one a detail fetch
C5_Witness ==
    /\ Len(succGaps) = MaxN - 1
    /\ pc = "detail_got"

\* C6: while a page is processed whose entries all carry an identifier that was in the
\* store when the page was looked up, every step leaves the store and the counter as
\* they are, every entry is skipped (no base insert), and no step leads to a detail
\* fetch, a detail update or the counting of a record.
C6_KnownPageUntouched ==
    [][pageAllKnown =>
          /\ db' = db
          /\ contactable_added' = contactable_added
          /\ pc' \in {"rec", "page_end", "while", "done"}
          /\ (pc = "rec" /\ items # <<>>) =>
                 items' = Tail(items) /\ page_known_only' /\ pc' = "rec"
          /\ pc = "page_end" => page_known_only]_vars

\* C6 witness: such a page has been drained
C6_Witness ==
    /\ pc = "page_end"
    /\ pageAllKnown

\* C7: when the detail fetch of a record has failed (non-success response or retries
\* exhausted) the run goes on with the next entry of the page; the record keeps its
\* base row without detail fields, and the store and the counter are as they were.
C7_DetailFailureIsolated ==
    [][pc = "detail_raised" =>
          /\ callResult \in {"http_error", "exhausted"}
          /\ pc' = "rec"
          /\ items' = Tail(items)
          /\ db' = db
          /\ db'[Head(items).id].present
          /\ ~db'[Head(items).id].updated
          /\ db'[Head(items).id].phone = Null /\ db'[Head(items).id].email = Null
          /\ contactable_added' = contactable_added]_vars

\* C7 witness: the detail fetch of B failed, another record has its detail fields
\* already, and an entry follows B on the page
C7_Witness ==
    /\ pc = "detail_raised"
    /\ Len(items) >= 2
    /\ \E j \in Ids : j # Head(items).id /\ db[j].updated

\* C8: all_known_streak is the number of pages in a row without a new identifier; it
\* never passes the limit, the run has ended for the stale-streak reason as soon as
\* it is at the limit (no further page is fetched), and it ends for that reason
\* only then.
C8_StaleStreakStops ==
    /\ all_known_streak = zeroNewStreak
    /\ all_known_streak <= all_known_pages_limit
    /\ all_known_streak >= all_known_pages_limit => pc = "done" /\ reason = "stale"
    /\ reason = "stale" => all_known_streak = all_known_pages_limit /\ pc = "done"

\* C8 witness: the run ended on a stale streak after a page that had reset the streak
C8_Witness ==
    /\ pc = "done"
    /\ reason = "stale"
    /\ PresentIds(db) # {}

\* C9: in every store the run reaches, an insert that adds a row returns true, a
\* second insert with the same identifier returns false whatever its other fields
\* are, and leaves every row as the first insert left it.
C9_InsertIdempotent ==
    \A r1 \in BaseRows, r2 \in BaseRows :
        (r1.ceidg_id = r2.ceidg_id /\ UpsertBase(db, r1).ret = "inserted") =>
            LET d1 == UpsertBase(db, r1).db
                second == UpsertBase(d1, r2)
            IN /\ d1[r1.ceidg_id].present
               /\ d1[r1.ceidg_id].nip = r1.nip
               /\ d1[r1.ceidg_id].link = r1.link
               /\ second.ret = "conflict"
               /\ second.db = d1

\* C9 witness: the run is about to insert an entry a second time on one page, with
\* another tax identifier than the row has
C9_Witness ==
    /\ pc = "rec"
    /\ items # <<>>
    /\ ~Skips(Head(items), known)
    /\ db[Head(items).id].present
    /\ db[Head(items).id].nip # Head(items).owner_nip

\* C10 as claimed: when a page has been processed in full, its index is the persisted
\* crawl progress.
C10_ProgressPersisted ==
    (pc = "while" /\ current_page > 0) => last_page = current_page - 1

\* C11 as claimed: when the counter is about to be evaluated for a newly inserted
\* record whose detail update was committed, the enrichment field of its row has
\* been written.
C11_EnrichedBeforeCount ==
    pc = "count" => Head(items).id \in enriched

\* C12 as claimed: no run ends abnormally because a persistence operation of the
\* crawl loop (known-identifier lookup, base insert, detail update, commit) raised.
C12_StoreErrorNeverAborts ==
    ~(pc = "failed" /\ reason = "store_error")

\* C13 as claimed: no run fails because a listing response carries no total count,
\* on page 0 as on every other page.
C13_MissingCountTolerated ==
    ~(pc = "failed" /\ reason = "type_error")

\* C14: company_detail_by_link is called at most once per identifier in a run, and
\* only for an identifier whose row this run has inserted; a row has detail fields
\* only if that call was made; and while a detail fetch, a detail update or the
\* counting of a record is in progress, the record is one that was not known when
\* the page was looked up, whose row is there, and whose one detail call is the
\* call of this iteration (the row has no detail fields before the update).
C14_DetailOncePerInsert ==
    /\ \A i \in Ids :
          /\ detailCalls[i] <= 1
          /\ detailCalls[i] = 1 => db[i].present
          /\ db[i].updated => detailCalls[i] = 1
    /\ pc \in {"detail_req", "detail_got", "detail_raised", "count"} =>
          /\ items # <<>>
          /\ Head(items).id \in Ids
          /\ Head(items).id \notin known
          /\ db[Head(items).id].present
          /\ detailCalls[Head(items).id] = 1
          /\ db[Head(items).id].updated <=> pc = "count"

\* C14 witness: an identifier that was inserted, fetched and updated earlier on the
\* page comes up again, and insert_base is about to return false for it
C14_Witness ==
    /\ pc = "rec"
    /\ items # <<>>
    /\ ~Skips(Head(items), known)
    /\ db[Head(items).id].updated
    /\ detailCalls[Head(items).id] = 1

\* C15 as claimed: a step adds one to the counter exactly when it is the counting step
\* of a newly inserted record whose detail update was committed and whose mapped
\* detail has a phone that is not null or an email that is not null; every other
\* step leaves the counter as it is.
C15_CountsNonNullContact ==
    [][/\ contactable_added' \in {contactable_added, contactable_added + 1}
       /\ contactable_added' = contactable_added + 1 <=>
             /\ pc = "count"
             /\ \/ map_detail_record(details).phone # Null
                \/ map_detail_record(details).email # Null]_vars

\* C16: when page p has been processed and the run does not stop on the stale
\* streak, it stops as source-exhausted exactly when the response for page p carried
\* a count C with (p+1) * PAGE_SIZE >= C; otherwise the page index becomes p+1 and
\* control is back at the loop condition, from where, the target not being reached,
\* the only step is to open the listing fetch of that same index.
C16_ExhaustedExactlyAtCount ==
    [][/\ (pc = "page_end" /\ ~(pc' = "done" /\ reason' = "stale")) =>
             LET reaches == /\ count_total # NoCount
                            /\ (current_page + 1) * PAGE_SIZE >= count_total
             IN  /\ (pc' = "done" /\ reason' = "exhausted") <=> reaches
                 /\ ~reaches => pc' = "while" /\ current_page' = current_page + 1
       /\ (pc = "while" /\ contactable_added < CONTACTABLE_TARGET) =>
             /\ pc' = "page_req"
             /\ current_page' = current_page
             /\ attempt' = 0
             /\ lastReqPage' = lastReqPage
       /\ (pc = "page_req" /\ lastReqPage' # lastReqPage) =>
             lastReqPage' = current_page]_vars

\* the run stopped as source-exhausted after page 1, having gone on after page 0
C16_Witness ==
    /\ pc = "done"
    /\ reason = "exhausted"
    /\ current_page = 2
    /\ lastReqPage = 1

\* C17: when the entry in turn is new to the page lookup, has no row in the store and
\* carries a tax identifier that another row already carries, the step taken leaves
\* the store as it was (no row for the entry), makes no detail fetch, leaves the
\* counter unchanged and goes on with the next entry of the page.
C17_NipCollisionSkipped ==
    [][(/\ pc = "rec"
        /\ items # <<>>
        /\ Head(items).id \in Ids
        /\ Head(items).id \notin known
        /\ ~db[Head(items).id].present
        /\ Head(items).owner_nip # NoNip
        /\ \E j \in Ids \ {Head(items).id} :
              db[j].present /\ db[j].nip = Head(items).owner_nip) =>
            /\ db' = db
            /\ detailCalls' = detailCalls
            /\ lastReqPage' = lastReqPage
            /\ callLog' = callLog
            /\ contactable_added' = contactable_added
            /\ pc' = "rec"
            /\ items' = Tail(items)]_vars

\* the entry in turn collides on the tax identifier, and an entry follows it
C17_Witness ==
    /\ pc = "rec"
    /\ Len(items) = 2
    /\ Head(items).id \in Ids
    /\ Head(items).id \notin known
    /\ ~db[Head(items).id].present
    /\ Head(items).owner_nip # NoNip
    /\ \E j \in Ids \ {Head(items).id} :
          db[j].present /\ db[j].nip = Head(items).owner_nip

\* C18 as claimed: after a non-empty page the streak is the previous streak + 1 if
\* every entry of the page, an entry without identifier included, was in the store at
\* the page lookup, and 0 otherwise.
C18_StreakNeedsEveryEntryKnown ==
    [][pc = "page_end" =>
          all_known_streak' = IF pageAllKnown THEN all_known_streak + 1 ELSE 0]_vars

\* C18 amended: after a non-empty page the streak is the previous streak + 1 if every
\* entry of the page that carries an identifier was in the store at the page lookup,
\* and 0 otherwise; entries without identifier are passed over and do not reset it.
C18_StreakIgnoresEntriesWithoutId ==
    [][pc = "page_end" =>
          /\ page_known_only <=> pageZeroNew
          /\ all_known_streak' = IF pageZeroNew THEN all_known_streak + 1 ELSE 0]_vars

\* the streak went up although the store is empty: the page held only entries
\* without identifier
C18_Witness ==
    /\ pc = "while"
    /\ all_known_streak = 1
    /\ PresentIds(db) = {}

\* C19 as claimed: the counter is between 0 and the target, and it is the number of
\* identifiers whose row this run inserted and then updated with a detail that has a
\* phone that is not null or an email that is not null (the record whose update has
\* just been committed and whose counting step is next is not yet in that number).
C19_CounterIsContactableRows ==
    /\ contactable_added >= 0
    /\ contactable_added <= CONTACTABLE_TARGET
    /\ contactable_added =
          Cardinality({ i \in Ids :
                          /\ db[i].present
                          /\ db[i].updated
                          /\ db[i].phone # Null \/ db[i].email # Null
                          /\ ~(pc = "count" /\ Head(items).id = i) })

\* the first page index that is never asked for when every response reports count c
PageBound(c) ==
    LET pages == (c + PAGE_SIZE - 1) \div PAGE_SIZE
    IN  IF pages > 1 THEN pages ELSE 1

\* C20: when every listing response reports the same count C >= 0, the run comes to
\* an end (finished or failed) whatever the registry and the store do, every listing
\* request is for the index of the previous one or for the next index, starting at
\* 0, and no index >= max(1, ceil(C / PAGE_SIZE)) is requested.
C20_SameCountTerminates ==
    /\ [](feed >= 0 => lastReqPage < PageBound(feed))
    /\ [][feed >= 0 =>
            /\ lastReqPage' \in {lastReqPage, lastReqPage + 1}
            /\ lastReqPage' # lastReqPage => pc = "page_req" /\ lastReqPage' = current_page]_vars
    /\ <>(pc \in {"done", "failed"})

\* with a count of MaxPages full pages the run asked for every page below the bound
\* and stopped as source-exhausted
C20_Witness ==
    /\ feed = MaxPages * PAGE_SIZE
    /\ lastReqPage = MaxPages - 1
    /\ pc = "done"
    /\ reason = "exhausted"

====
